---- MODULE Spec2Model ----
(***************************************************************************)
(* Model of the BCM2837 Mini UART driver (bcm2837/src/uart.rs), of the     *)
(* boot stub that reaches it (cortex-a/src/lib.rs) and of the entry        *)
(* function that uses it (rpi3b/src/main.rs).                              *)
(*                                                                         *)
(* A 32-bit register value is the set of the positions of its 1 bits, so   *)
(* that the masked operations of tock_registers are the set operations:    *)
(* and = \cap, or = \cup, and-not = \ .                                    *)
(***************************************************************************)
EXTENDS Integers, Sequences, FiniteSets, TLC

\* ------------------------------------------------------------------------
\* Bounds of the model
\* ------------------------------------------------------------------------
\* failed polls of the line-status register that one wait is followed through
MaxSpin == 2
\* depth of the receive FIFO of the simulated peripheral
RxDepth == 1
\* depth of the transmit FIFO of the simulated peripheral
TxDepth == 1

\* calls of uart1() the model follows
MaxOwners == 2

\* ------------------------------------------------------------------------
\* 32-bit words as sets of bit positions
\* ------------------------------------------------------------------------
WordBits == 0..31

Word == SUBSET WordBits

\* the word holding the number n (n < 2^31)
BitsOf(n) == {i \in 0..30 : (n \div (2^i)) % 2 = 1}

RECURSIVE ValOf(_)
\* the number a word holds (words below 2^31)
ValOf(w) ==
    IF w = {} THEN 0
    ELSE LET i == CHOOSE j \in w : TRUE IN (2^i) + ValOf(w \ {i})

\* `byte as u32`: zero extension of a u8
U8AsU32(b) == BitsOf(b % 256)

\* `x as u8`: truncation of a u32 to its low 8 bits
U32AsU8(w) == ValOf(w \cap (0..7))

\* ------------------------------------------------------------------------
\* register_bitfields!: a field is OFFSET/NUMBITS, a field value is a pair
\* (mask, value), both already shifted to the field's position
\* ------------------------------------------------------------------------
Field(offset, numbits) == [offset |-> offset, numbits |-> numbits]

FieldMask(f) == f.offset .. (f.offset + f.numbits - 1)

\* FieldValue::new(mask, shift, value)
FieldValue(f, n) ==
    [mask |-> FieldMask(f),
     value |-> {f.offset + i : i \in BitsOf(n)} \cap FieldMask(f)]

\* Field::SET : every bit of the field is 1
SET(f) == [mask |-> FieldMask(f), value |-> FieldMask(f)]

\* Field::CLEAR : every bit of the field is 0
CLEAR(f) == [mask |-> FieldMask(f), value |-> {}]

\* FieldValue + FieldValue
Plus(a, b) == [mask |-> a.mask \cup b.mask, value |-> a.value \cup b.value]

Mux_UART == Field(0, 1)
Mux_SPI1 == Field(1, 1)
Mux_SPI2 == Field(2, 1)

RBR_Data == Field(0, 8)
THR_Data == Field(0, 8)

FCR_ClearTransmitFIFO == Field(2, 1)
FCR_ClearReceiveFIFO == Field(1, 1)

LCR_DataWordLength == Field(0, 2)
\* a word length other than Bits8
LCR_DataWordLength_Other == FieldValue(LCR_DataWordLength, 2)

LCR_DataWordLength_Bits8 == FieldValue(LCR_DataWordLength, 3)

MCR_RequestToSend == Field(1, 1)

LSR_ErronousDataInFIFO == Field(7, 1)
LSR_THREmptyLineIdle == Field(6, 1)
LSR_THREmpty == Field(5, 1)
LSR_BreakSignalReceived == Field(4, 1)
LSR_FramingError == Field(3, 1)
LSR_ParityError == Field(2, 1)
LSR_OverrunError == Field(1, 1)
LSR_DataAvailable == Field(0, 1)

CNTL_ReceiverEnable == Field(0, 1)
CNTL_TransmitterEnable == Field(1, 1)

BAUD_Baudrate == Field(0, 16)

\* ------------------------------------------------------------------------
\* tock_registers accessors, as functions of the register's value
\* ------------------------------------------------------------------------
\* Readable::read(field) : (get() & mask) >> shift
ReadField(w, f) == ValOf({i - f.offset : i \in w \cap FieldMask(f)})

\* FieldValue::modify(old) : (old & !mask) | value
\* variants: the field bits flipped instead of set; the register overwritten
ModifyToggle(old, fv) == (old \ fv.mask) \cup (fv.value \ old)

ModifyOverwrite(old, fv) == fv.value

Modify(old, fv) == (old \ fv.mask) \cup fv.value

\* FieldValue written whole by Writeable::write(fv) : set(fv.value)
WriteValue(fv) == fv.value

\* ------------------------------------------------------------------------
\* State
\* ------------------------------------------------------------------------
VARIABLES
    regs,      \* the driver-programmed registers of struct Registers
    rx,        \* receive FIFO of the peripheral: words waiting behind RBR
    tx,        \* occupancy of the transmit FIFO behind THR
    errs,      \* error bits the peripheral shows in the line-status register
    pc,        \* position of the (single) execution context
    stack,     \* return positions of the calls in progress
    op,        \* driver operation the caller invoked last
    buf,       \* slice `s` of the write_bytes in progress
    idx,       \* position of `s.iter()`
    byte,      \* argument `byte` of the write_byte in progress
    ret,       \* value returned by the last call that returned
    trace,     \* register accesses of the init / write_byte / read_byte in
               \* progress (or last finished), in program order
    out,       \* words written to the data register since `op` was invoked
    spins,     \* failed polls of the wait in progress
    initDone,  \* init() has run to completion at least once
    snap,      \* contents of `regs` when init() last returned
    runs,      \* init() calls completed in a row with nothing else touching
               \* the device in between (counted up to 2)
    pre,       \* contents of `regs` when `op` was invoked
    cpu,       \* position of every core in _start
    owners,    \* UART values that uart1() has handed out
    str,       \* argument `s` of the write_str in progress
    got,       \* byte the match of kernel_main was entered with last, -1
               \* before the first
    probe      \* a register of the block under modify(Field::SET / CLEAR)

vars == <<regs, rx, tx, errs, pc, stack, op, buf, idx, byte, ret, trace,
          out, spins, initDone, snap, runs, pre, cpu, owners, str, got,
          probe>>

hwVars == <<rx, tx, errs>>
callVars == <<buf, idx, byte>>

RegNames == {"irq", "enables", "ier", "iir_fcr", "lcr", "mcr", "control", "baud"}

Rd(r, w) == [acc |-> "read", reg |-> r, val |-> w]
Wr(r, w) == [acc |-> "write", reg |-> r, val |-> w]

Unit == [tag |-> "unit", val |-> 0]
Ok == [tag |-> "Ok", val |-> 0]
U8(n) == [tag |-> "u8", val |-> n]

\* ------------------------------------------------------------------------
\* The peripheral behind the register block
\* ------------------------------------------------------------------------
\* what a read of the line-status register returns
LsrValue ==
    (IF rx # <<>> THEN FieldMask(LSR_DataAvailable) ELSE {})
    \cup (IF tx < TxDepth THEN FieldMask(LSR_THREmpty) ELSE {})
    \cup (IF tx = 0 THEN FieldMask(LSR_THREmptyLineIdle) ELSE {})
    \cup errs

\* words the receive path can present: the received byte in bits 0..7;
\* bits 8..31 are reserved and read as don't-care
RxWords == {BitsOf(13), BitsOf(127), BitsOf(193) \cup {31}}

\* a word arrives on the line; with the FIFO full it is dropped (overrun)
HwReceive(w) ==
    /\ IF Len(rx) < RxDepth
         THEN rx' = Append(rx, w) /\ errs' = errs
         ELSE rx' = rx /\ errs' = errs \cup FieldMask(LSR_OverrunError)
    /\ <<rx', errs'>> # <<rx, errs>>
    /\ runs' = 0
    /\ UNCHANGED <<regs, tx, pc, stack, op, callVars, ret, trace, out,
                   spins, initDone, snap, pre, cpu, owners, str, got, probe>>

\* the framing, parity, overrun, break and erroneous-data bits of the
\* line-status register
ErrorBits ==
    FieldMask(LSR_ErronousDataInFIFO) \cup FieldMask(LSR_BreakSignalReceived)
    \cup FieldMask(LSR_FramingError) \cup FieldMask(LSR_ParityError)
    \cup FieldMask(LSR_OverrunError)

\* error conditions the line-status register can show, none included
LineErrors ==
    {{},
     FieldMask(LSR_ParityError),
     FieldMask(LSR_FramingError) \cup FieldMask(LSR_ErronousDataInFIFO),
     FieldMask(LSR_BreakSignalReceived),
     ErrorBits}

\* the transmitter shifts one byte out
HwTransmit ==
    /\ tx > 0
    /\ tx' = tx - 1
    /\ runs' = 0
    /\ UNCHANGED <<regs, rx, errs, pc, stack, op, callVars, ret, trace, out,
                   spins, initDone, snap, pre, cpu, owners, str, got, probe>>

Hw ==
    \/ \E w \in RxWords : HwReceive(w)
    \/ HwTransmit

\* effect of a write to the FIFO-control view on the FIFOs
FcrRx(w, q) == IF FieldMask(FCR_ClearReceiveFIFO) \subseteq w THEN <<>> ELSE q
FcrTx(w, n) == IF FieldMask(FCR_ClearTransmitFIFO) \subseteq w THEN 0 ELSE n

\* ------------------------------------------------------------------------
\* Calls and returns
\* ------------------------------------------------------------------------
Return(v) ==
    /\ pc' = Head(stack)
    /\ stack' = Tail(stack)
    /\ ret' = v

\* ------------------------------------------------------------------------
\* UART::init
\* ------------------------------------------------------------------------
\* the statements of init() in program order
InitOrderBaudLast ==
    <<"init_enables", "init_control_rx", "init_lcr", "init_mcr", "init_ier",
      "init_fcr", "init_control", "init_baud">>

InitOrder ==
    <<"init_enables", "init_control_rx", "init_lcr", "init_mcr", "init_ier",
      "init_fcr", "init_baud", "init_control">>

InitPos(l) == CHOOSE i \in 1..Len(InitOrder) : InitOrder[i] = l

\* leave statement l of init(): go to the next one, or return after the last
InitAdvance(l) ==
    IF InitPos(l) < Len(InitOrder)
      THEN /\ pc' = InitOrder[InitPos(l) + 1]
           /\ UNCHANGED <<stack, ret, initDone, snap, runs, probe>>
      ELSE /\ Return(Unit)
           /\ initDone' = TRUE
           /\ snap' = regs'
           /\ runs' = IF runs = 0 THEN 1 ELSE 2

\* register.modify(fv): one volatile read, one volatile write
InitModify(l, r, fv) ==
    /\ pc = l
    /\ regs' = [regs EXCEPT ![r] = Modify(@, fv)]
    /\ trace' = trace \o <<Rd(r, regs[r]), Wr(r, regs'[r])>>
    /\ UNCHANGED <<hwVars, op, callVars, out, spins, pre, cpu,
                   owners, str, got, probe>>
    /\ InitAdvance(l)

\* register.set(w) / register.write(fv): one volatile write
InitSet(l, r, w) ==
    /\ pc = l
    /\ regs' = [regs EXCEPT ![r] = w]
    /\ trace' = Append(trace, Wr(r, w))
    /\ IF r = "iir_fcr"
         THEN rx' = FcrRx(w, rx) /\ tx' = FcrTx(w, tx) /\ errs' = errs
         ELSE UNCHANGED hwVars
    /\ UNCHANGED <<op, callVars, out, spins, pre, cpu, owners, str,
                   got, probe>>
    /\ InitAdvance(l)

init_enables == InitModify("init_enables", "enables", SET(Mux_UART))

init_control_rx == InitModify("init_control_rx", "control", SET(CNTL_ReceiverEnable))

init_lcr == InitModify("init_lcr", "lcr", LCR_DataWordLength_Bits8)

init_mcr == InitModify("init_mcr", "mcr", CLEAR(MCR_RequestToSend))

\* every interrupt source of IER enabled
IerInitAllEnabled == BitsOf(15)

\* the word init() hands to ier.set
IerInit == BitsOf(0)

init_ier == InitSet("init_ier", "ier", IerInit)

FcrInit == Plus(CLEAR(FCR_ClearReceiveFIFO), CLEAR(FCR_ClearTransmitFIFO))

init_fcr == InitSet("init_fcr", "iir_fcr", WriteValue(FcrInit))

\* the divisor of a 16x-oversampling 16550, not of the Mini UART
BaudDivisor16 == (25000000 \div 16) \div 115200

BaudDivisor == (25000000 \div 8) \div 115200

init_baud == InitSet("init_baud", "baud", BitsOf(BaudDivisor))

init_control ==
    InitModify("init_control", "control",
               Plus(SET(CNTL_ReceiverEnable), SET(CNTL_TransmitterEnable)))

init ==
    \/ init_enables
    \/ init_control_rx
    \/ init_lcr
    \/ init_mcr
    \/ init_ier
    \/ init_fcr
    \/ init_baud
    \/ init_control

\* ------------------------------------------------------------------------
\* UART::write_byte
\* ------------------------------------------------------------------------
\* exit condition of the wait: lsr.read(LSR::THREmpty) != 0
WriteReadyNoWait(v) == TRUE

\* the wait left while the flag is clear
WriteReadyInverted(v) == ReadField(v, LSR_THREmpty) = 0

WriteReady(v) == ReadField(v, LSR_THREmpty) # 0

\* one iteration of `while self.0.lsr.read(LSR::THREmpty) == 0 {}`
wb_poll ==
    /\ pc = "wb_poll"
    /\ trace' = Append(trace, Rd("lsr", LsrValue))
    /\ IF WriteReady(LsrValue)
         THEN pc' = "wb_set" /\ spins' = 0
         ELSE spins < MaxSpin /\ pc' = pc /\ spins' = spins + 1
    /\ UNCHANGED <<regs, hwVars, stack, op, callVars, ret, out, initDone,
                   snap, runs, pre, cpu, owners, str, got, probe>>

\* what `byte as u32` would be were the byte sign-extended
ThrValueSignExtended(b) == BitsOf(b % 256) \cup (IF b % 256 >= 128 THEN 8..31 ELSE {})

\* the word handed to rbr_thr.set : `byte as u32`
ThrValue(b) == U8AsU32(b)

\* self.0.rbr_thr.set(byte as u32), then return
wb_set ==
    /\ pc = "wb_set"
    /\ trace' = Append(trace, Wr("rbr_thr", ThrValue(byte)))
    /\ out' = Append(out, ThrValue(byte))
    /\ tx' = IF tx < TxDepth THEN tx + 1 ELSE tx
    /\ Return(Unit)
    /\ runs' = 0
    /\ UNCHANGED <<regs, rx, errs, op, callVars, spins, initDone, snap, pre,
                   cpu, owners, str, got, probe>>

write_byte == wb_poll \/ wb_set

\* ------------------------------------------------------------------------
\* UART::write_bytes
\* ------------------------------------------------------------------------
\* the element `s.iter()` yields at position i (0-based), in slice order
IterItemReversed(s, i) == s[Len(s) - i]

IterItem(s, i) == s[i + 1]

\* `for byte in s.iter() { self.write_byte(*byte) }` : one pass of the loop
wbs_next ==
    /\ pc = "wbs_next"
    /\ IF idx < Len(buf)
         THEN /\ byte' = IterItem(buf, idx)
              /\ idx' = idx + 1
              /\ pc' = "wb_poll"
              /\ stack' = <<"wbs_next">> \o stack
              /\ trace' = <<>>
              /\ UNCHANGED <<ret, buf, probe>>
         ELSE /\ Return(Unit)
              /\ UNCHANGED <<callVars, trace, probe>>
    /\ UNCHANGED <<regs, hwVars, op, out, spins, initDone, snap, runs, pre,
                   cpu, owners, str, got, probe>>

write_bytes == wbs_next

\* ------------------------------------------------------------------------
\* UART::read_byte
\* ------------------------------------------------------------------------
\* exit condition of the wait: lsr.read(LSR::DataAvailable) != 0
ReadReadyNoWait(v) == TRUE

\* the wait held while the line status shows an error
ReadReadyNoErrors(v) ==
    /\ ReadField(v, LSR_DataAvailable) # 0
    /\ \A i \in {1, 2, 3, 4, 7} : i \notin v

ReadReady(v) == ReadField(v, LSR_DataAvailable) # 0

\* one iteration of `while self.0.lsr.read(LSR::DataAvailable) == 0 {}`
rb_poll ==
    /\ pc = "rb_poll"
    /\ trace' = Append(trace, Rd("lsr", LsrValue))
    /\ IF ReadReady(LsrValue)
         THEN pc' = "rb_read" /\ spins' = 0
         ELSE spins < MaxSpin /\ pc' = pc /\ spins' = spins + 1
    /\ UNCHANGED <<regs, hwVars, stack, op, callVars, ret, out, initDone,
                   snap, runs, pre, cpu, owners, str, got, probe>>

\* a seven-bit data field
RbrResultLow7(w) == ReadField(w, Field(0, 7)) % 256

\* the value of `rbr_thr.read(RBR::Data) as u8` for the word w read
RbrResult(w) == ReadField(w, RBR_Data) % 256

\* what a read of the receive buffer returns: the head of the FIFO, and an
\* unspecified word when the FIFO is empty
RbrWords == IF rx # <<>> THEN {Head(rx)} ELSE RxWords \cup {{}}

\* self.0.rbr_thr.read(RBR::Data) as u8, returned
rb_read ==
    /\ pc = "rb_read"
    /\ \E w \in RbrWords :
         /\ trace' = Append(trace, Rd("rbr_thr", w))
         /\ Return(U8(RbrResult(w)))
    /\ rx' = IF rx # <<>> THEN Tail(rx) ELSE rx
    /\ runs' = 0
    /\ UNCHANGED <<regs, tx, errs, op, callVars, out, spins, initDone, snap,
                   pre, cpu, owners, str, got, probe>>

read_byte == rb_poll \/ rb_read

\* the UTF-8 encoding of one char
Utf8(c) ==
    IF c < 128 THEN <<c>>
    ELSE IF c < 2048 THEN <<192 + (c \div 64), 128 + (c % 64)>>
    ELSE IF c < 65536
      THEN <<224 + (c \div 4096), 128 + ((c \div 64) % 64), 128 + (c % 64)>>
      ELSE <<240 + (c \div 262144), 128 + ((c \div 4096) % 64),
             128 + ((c \div 64) % 64), 128 + (c % 64)>>

\* s.as_bytes() for the &str whose chars are the sequence s: the bytes a
\* &str consists of, its UTF-8 encoding
RECURSIVE AsBytes(_)
AsBytes(s) == IF s = <<>> THEN <<>> ELSE Utf8(Head(s)) \o AsBytes(Tail(s))

\* ------------------------------------------------------------------------
\* impl Write for UART
\* ------------------------------------------------------------------------
\* self.write_bytes(s.as_bytes()) : a str is its UTF-8 bytes
ws_call ==
    /\ pc = "ws_call"
    /\ buf' = AsBytes(str)
    /\ idx' = 0
    /\ pc' = "wbs_next"
    /\ stack' = <<"ws_ok">> \o stack
    /\ UNCHANGED <<regs, hwVars, op, byte, ret, trace, out, spins,
                   initDone, snap, runs, pre, cpu, owners, str, got, probe>>

\* the failure of the formatting traits
WsResultErr == [tag |-> "Err", val |-> 0]

\* the value of the last expression of write_str: Ok(())
WsResult == Ok

\* Ok(())
ws_ok ==
    /\ pc = "ws_ok"
    /\ Return(WsResult)
    /\ UNCHANGED <<regs, hwVars, op, callVars, trace, out, spins, initDone,
                   snap, runs, pre, cpu, owners, str, got, probe>>

write_str == ws_call \/ ws_ok

\* every step of the driver
Driver == init \/ write_byte \/ write_bytes \/ read_byte \/ write_str

\* pub unsafe fn uart1() -> UART : a new UART value over the register block
\* at 0x3F215000, whatever was handed out before
uart1 == owners' = owners + 1

\* ------------------------------------------------------------------------
\* A caller of the driver: any operation, any argument, one call at a time
\* ------------------------------------------------------------------------
\* a caller at position `from` invokes operation `name`, entered at `entry`
Invoke(name, entry, from, s, b) ==
    /\ op' = name
    /\ pc' = entry
    /\ stack' = <<from>> \o stack
    /\ trace' = <<>>
    /\ out' = <<>>
    /\ spins' = 0
    /\ ret' = Unit
    /\ str' = IF name = "write_str" THEN s ELSE <<>>
    /\ buf' = IF name = "write_str" THEN <<>> ELSE s
    /\ idx' = 0
    /\ byte' = b
    /\ pre' = regs

\* byte values the callers of the model pass in slices
SampleBytes == {10, 13, 127}

\* byte slices the callers of the model pass: empty, one byte, distinct
\* bytes in an order that shows, a repeated byte
SampleSlices == {<<>>, <<13>>, <<10, 127>>, <<127, 10, 13>>, <<10, 10>>}

\* strings the callers of the model pass, as sequences of chars: empty,
\* ASCII, and chars that take two and three bytes
SampleStrs == {<<>>, <<13>>, <<233>>, <<27, 91, 75>>, <<8364, 10>>}

CallInit ==
    /\ pc = "idle"
    /\ Invoke("init", InitOrder[1], "idle", <<>>, 0)
    /\ UNCHANGED <<regs, hwVars, initDone, snap, runs, cpu, owners,
                   got, probe>>

CallWriteByte(b) ==
    /\ pc = "idle"
    /\ Invoke("write_byte", "wb_poll", "idle", <<>>, b)
    /\ UNCHANGED <<regs, hwVars, initDone, snap, runs, cpu, owners,
                   got, probe>>

CallWriteBytes(s) ==
    /\ pc = "idle"
    /\ Invoke("write_bytes", "wbs_next", "idle", s, 0)
    /\ UNCHANGED <<regs, hwVars, initDone, snap, runs, cpu, owners,
                   got, probe>>

CallReadByte ==
    /\ pc = "idle"
    /\ Invoke("read_byte", "rb_poll", "idle", <<>>, 0)
    /\ UNCHANGED <<regs, hwVars, initDone, snap, runs, cpu, owners,
                   got, probe>>

CallWriteStr(s) ==
    /\ pc = "idle"
    /\ Invoke("write_str", "ws_call", "idle", s, 0)
    /\ UNCHANGED <<regs, hwVars, initDone, snap, runs, cpu, owners,
                   got, probe>>

\* some code calls the unsafe constructor
CallUart1 ==
    /\ pc = "idle"
    /\ owners < MaxOwners
    /\ uart1
    /\ UNCHANGED <<regs, hwVars, pc, stack, op, callVars, ret, trace, out,
                   spins, initDone, snap, runs, pre, cpu, str, got, probe>>

Caller ==
    \/ CallInit
    \/ \E b \in SampleBytes \cup {0, 255} : CallWriteByte(b)
    \/ \E s \in SampleSlices : CallWriteBytes(s)
    \/ CallReadByte
    \/ \E s \in SampleStrs : CallWriteStr(s)

\* ------------------------------------------------------------------------
\* kernel_main
\* ------------------------------------------------------------------------
\* "Hello world\n"
Hello == <<72, 101, 108, 108, 111, 32, 119, 111, 114, 108, 100, 10>>

\* "\x1B[1D"
CursorLeft == <<27, 91, 49, 68>>

\* "\x1B[K"
EraseLine == <<27, 91, 75>>

\* let mut uart = unsafe { bcm2837::uart::UART::uart1() };
km_uart1 ==
    /\ pc = "km_uart1"
    /\ uart1
    /\ pc' = "km_hello"
    /\ UNCHANGED <<regs, hwVars, stack, op, callVars, ret, trace, out, spins,
                   initDone, snap, runs, pre, cpu, str, got, probe>>

\* let _ = write!(&mut uart, "Hello world\n");
km_hello ==
    /\ pc = "km_hello"
    /\ Invoke("write_str", "ws_call", "km_read", Hello, 0)
    /\ UNCHANGED <<regs, hwVars, initDone, snap, runs, cpu, owners,
                   got, probe>>

\* loop { match uart.read_byte() {
km_read ==
    /\ pc = "km_read"
    /\ Invoke("read_byte", "rb_poll", "km_match", <<>>, 0)
    /\ UNCHANGED <<regs, hwVars, initDone, snap, runs, cpu, owners,
                   got, probe>>

\* a match without the arm for 0x7F
MatchArmNoDel(r) == IF r = 13 THEN "cr" ELSE "r"

\* the arm `match uart.read_byte()` selects: b'\r', 0x7F, or the binding r
MatchArm(r) == IF r = 13 THEN "cr" ELSE IF r = 127 THEN "del" ELSE "r"

\* the arms of the match on the byte read
km_match ==
    /\ pc = "km_match"
    /\ got' = ret.val
    /\ CASE MatchArm(ret.val) = "cr" ->
              Invoke("write_byte", "wb_poll", "km_read", <<>>, 10)
         [] MatchArm(ret.val) = "del" ->
              Invoke("write_str", "ws_call", "km_erase", CursorLeft, 0)
         [] MatchArm(ret.val) = "r" ->
              Invoke("write_byte", "wb_poll", "km_read", <<>>, ret.val)
    /\ UNCHANGED <<regs, hwVars, initDone, snap, runs, cpu, owners, probe>>

\* let _ = uart.write_str("\x1B[K");
km_erase ==
    /\ pc = "km_erase"
    /\ Invoke("write_str", "ws_call", "km_read", EraseLine, 0)
    /\ UNCHANGED <<regs, hwVars, initDone, snap, runs, cpu, owners,
                   got, probe>>

kernel_main == km_uart1 \/ km_hello \/ km_read \/ km_match \/ km_erase

\* ------------------------------------------------------------------------
\* _start
\* ------------------------------------------------------------------------
\* `and x1, x1, #3` leaves four core ids
NumCores == 4

Cores == 0..(NumCores - 1)

\* mpidr_el1 of core c: the core id in Aff0, bit 31 reads as one
Mpidr(c) == BitsOf(c) \cup {31}

\* the mask taken one bit short
CoreIdBit0(c) == ValOf(Mpidr(c) \cap BitsOf(1))

\* mrs x1, mpidr_el1 ; and x1, x1, #3
CoreId(c) == ValOf(Mpidr(c) \cap BitsOf(3))

\* mrs / and / cbz : the core takes the branch to 2: when its id is zero
start_id(c) ==
    /\ cpu[c].at = "_start"
    /\ cpu' = [cpu EXCEPT ![c].at = IF CoreId(c) = 0 THEN "simd" ELSE "wfi"]
    /\ UNCHANGED <<regs, hwVars, pc, stack, op, callVars, ret, trace, out,
                   spins, initDone, snap, runs, pre, owners, str, got, probe>>

\* 1: wfi ; b 1b : a wake-up leads back to the wfi
start_wfi(c) ==
    /\ cpu[c].at = "wfi"
    /\ cpu' = [cpu EXCEPT ![c].at = "wfi"]
    /\ UNCHANGED <<regs, hwVars, pc, stack, op, callVars, ret, trace, out,
                   spins, initDone, snap, runs, pre, owners, str, got, probe>>

\* mov x30, #(0x3 << 20) ; msr cpacr_el1, x30 ; isb
start_simd(c) ==
    /\ cpu[c].at = "simd"
    /\ cpu' = [cpu EXCEPT ![c].at = "stack", ![c].fpen = TRUE]
    /\ UNCHANGED <<regs, hwVars, pc, stack, op, callVars, ret, trace, out,
                   spins, initDone, snap, runs, pre, owners, str, got, probe>>

\* ldr x30, =_estack ; mov sp, x30
start_stack(c) ==
    /\ cpu[c].at = "stack"
    /\ cpu' = [cpu EXCEPT ![c].at = "bl", ![c].sp = TRUE]
    /\ UNCHANGED <<regs, hwVars, pc, stack, op, callVars, ret, trace, out,
                   spins, initDone, snap, runs, pre, owners, str, got, probe>>

\* bl kernel_main
start_bl(c) ==
    /\ cpu[c].at = "bl"
    /\ cpu' = [cpu EXCEPT ![c].at = "kernel_main"]
    /\ pc' = "km_uart1"
    /\ stack' = <<"halt">>
    /\ UNCHANGED <<regs, hwVars, op, callVars, ret, trace, out, spins,
                   initDone, snap, runs, pre, owners, str, got, probe>>

start ==
    \E c \in Cores :
        \/ start_id(c)
        \/ start_wfi(c)
        \/ start_simd(c)
        \/ start_stack(c)
        \/ start_bl(c)

\* ------------------------------------------------------------------------
\* The bit-field declarations, field by field
\* ------------------------------------------------------------------------
Bf(reg, width, name, f) ==
    [reg |-> reg, width |-> width, name |-> name, field |-> f]

Bitfields ==
    {Bf("Mux", 32, "UART", Mux_UART), Bf("Mux", 32, "SPI1", Mux_SPI1),
     Bf("Mux", 32, "SPI2", Mux_SPI2),
     Bf("RBR", 32, "Data", RBR_Data),
     Bf("THR", 32, "Data", THR_Data),
     Bf("IER", 32, "ModemStatusRegisterChange", Field(3, 1)),
     Bf("IER", 32, "ReceiverLineStatusRegisterChange", Field(2, 1)),
     Bf("IER", 32, "TransmitterHoldingRegisterEmpty", Field(1, 1)),
     Bf("IER", 32, "ReceivedDataAvailable", Field(0, 1)),
     Bf("IIR", 32, "FIFO", Field(6, 2)),
     Bf("IIR", 32, "Identification", Field(1, 2)),
     Bf("IIR", 32, "Pending", Field(0, 1)),
     Bf("FCR", 32, "ClearTransmitFIFO", FCR_ClearTransmitFIFO),
     Bf("FCR", 32, "ClearReceiveFIFO", FCR_ClearReceiveFIFO),
     Bf("LCR", 32, "BreakSignal", Field(6, 1)),
     Bf("LCR", 32, "ParityMode", Field(4, 2)),
     Bf("LCR", 32, "Parity", Field(3, 1)),
     Bf("LCR", 32, "StopBits", Field(2, 1)),
     Bf("LCR", 32, "DataWordLength", LCR_DataWordLength),
     Bf("MCR", 32, "RequestToSend", MCR_RequestToSend),
     Bf("LSR", 32, "ErronousDataInFIFO", LSR_ErronousDataInFIFO),
     Bf("LSR", 32, "THREmptyLineIdle", LSR_THREmptyLineIdle),
     Bf("LSR", 32, "THREmpty", LSR_THREmpty),
     Bf("LSR", 32, "BreakSignalReceived", LSR_BreakSignalReceived),
     Bf("LSR", 32, "FramingError", LSR_FramingError),
     Bf("LSR", 32, "ParityError", LSR_ParityError),
     Bf("LSR", 32, "OverrunError", LSR_OverrunError),
     Bf("LSR", 32, "DataAvailable", LSR_DataAvailable),
     Bf("MSR", 32, "CarrierDetect", Field(7, 1)),
     Bf("MSR", 32, "RingIndicator", Field(6, 1)),
     Bf("MSR", 32, "DataSetReady", Field(5, 1)),
     Bf("MSR", 32, "ClearToSend", Field(4, 1)),
     Bf("MSR", 32, "ChangeInCarrierDetect", Field(3, 1)),
     Bf("MSR", 32, "TrailingEdgeRingIndicator", Field(2, 1)),
     Bf("MSR", 32, "ChangeInDataSetReady", Field(1, 1)),
     Bf("MSR", 32, "ChangeInClearToSend", Field(0, 1)),
     Bf("CNTL", 32, "ReceiverEnable", CNTL_ReceiverEnable),
     Bf("CNTL", 32, "TransmitterEnable", CNTL_TransmitterEnable),
     Bf("CNTL", 32, "RTSEnable", Field(2, 1)),
     Bf("CNTL", 32, "CTSEnable", Field(3, 1)),
     Bf("CNTL", 32, "RTSAutoFlowLevel", Field(4, 2)),
     Bf("CNTL", 32, "RTSAssertLevel", Field(6, 1)),
     Bf("CNTL", 32, "CTSAssertLevel", Field(6, 1)),
     Bf("DLR", 16, "Divisor", Field(0, 16)),
     Bf("BAUD", 16, "Baudrate", BAUD_Baudrate)}

BitfieldNames == {b.reg : b \in Bitfields}

FieldsOf(reg) == {b \in Bitfields : b.reg = reg}

\* a register declared with the fields of `reg`, all zero, nothing modified
ProbeOf(reg) == [reg |-> reg, name |-> "none", before |-> {}, after |-> {}]

\* reg.modify(Field::SET) on a register declared with the fields of b.reg
FieldSet(b) ==
    /\ b.reg = probe.reg
    /\ probe' = [reg |-> b.reg, name |-> b.name, before |-> probe.after,
                 after |-> Modify(probe.after, SET(b.field))]
    /\ UNCHANGED <<regs, hwVars, pc, stack, op, callVars, ret, trace, out,
                   spins, initDone, snap, runs, pre, cpu, owners, str, got>>

\* reg.modify(Field::CLEAR)
FieldClear(b) ==
    /\ b.reg = probe.reg
    /\ probe' = [reg |-> b.reg, name |-> b.name, before |-> probe.after,
                 after |-> Modify(probe.after, CLEAR(b.field))]
    /\ UNCHANGED <<regs, hwVars, pc, stack, op, callVars, ret, trace, out,
                   spins, initDone, snap, runs, pre, cpu, owners, str, got>>

\* ------------------------------------------------------------------------
\* Initial states
\* ------------------------------------------------------------------------
\* register contents the driver can find: reset values, and values left by
\* whatever ran before (firmware, another peripheral's driver)
RegsAtReset == [r \in RegNames |-> {}]

RegsLeft ==
    [irq |-> {0}, enables |-> {1, 2}, ier |-> {0, 1}, iir_fcr |-> {},
     lcr |-> {1, 2, 7}, mcr |-> {0, 1, 5}, control |-> {1, 3}, baud |-> BitsOf(270)]

RegsAny ==
    [irq : {{}, {0}},
     enables : {{}, {1, 2}, {0, 2, 31}},
     ier : {{}, {0, 1}},
     iir_fcr : {{}},
     lcr : {{}, {1, 2, 7}},
     mcr : {{}, {0, 1, 5}},
     control : {{}, {1, 3}, {0, 2, 6}},
     baud : {{}, BitsOf(270)}]

CpuOff == [c \in Cores |-> [at |-> "off", fpen |-> FALSE, sp |-> FALSE]]

CpuReset == [c \in Cores |-> [at |-> "_start", fpen |-> FALSE, sp |-> FALSE]]

InitCommon ==
    /\ rx = <<>>
    /\ probe = ProbeOf("CNTL")
    /\ str = <<>>
    /\ got = -1
    /\ stack = <<>>
    /\ op = "none"
    /\ buf = <<>>
    /\ idx = 0
    /\ byte = 0
    /\ ret = Unit
    /\ trace = <<>>
    /\ out = <<>>
    /\ spins = 0
    /\ initDone = FALSE
    /\ runs = 0

\* a caller owns the driver; the device is as reset or as left
Init ==
    /\ InitCommon
    /\ owners = 1
    /\ errs = {}
    /\ regs = RegsLeft
    /\ tx = 0
    /\ snap = regs
    /\ pre = regs
    /\ pc = "idle"
    /\ cpu = CpuOff

\* ------------------------------------------------------------------------
\* Specifications
\* ------------------------------------------------------------------------
Next == Caller \/ Driver \/ Hw

\* the driver under an arbitrary caller
Spec == Init /\ [][Next]_vars

\* the three blocking operations under an arbitrary caller, on a processor
\* that keeps executing the operation in progress; nothing obliges the caller to call or the
\* peripheral to receive or transmit
NextLive ==
    \/ CallInit
    \/ \E b \in SampleBytes : CallWriteByte(b)
    \/ CallReadByte
    \/ init
    \/ write_byte
    \/ read_byte
    \/ Hw

SpecLive == Init /\ [][NextLive]_vars /\ WF_vars(init \/ write_byte \/ read_byte)

\* write_byte and read_byte on a line whose status shows errors
InitErr ==
    /\ InitCommon
    /\ owners = 1
    /\ errs \in LineErrors
    /\ regs = RegsLeft
    /\ tx = 0
    /\ snap = regs
    /\ pre = regs
    /\ pc = "idle"
    /\ cpu = CpuOff

NextErr ==
    \/ \E b \in SampleBytes : CallWriteByte(b)
    \/ CallReadByte
    \/ write_byte
    \/ read_byte
    \/ Hw

SpecErr == InitErr /\ [][NextErr]_vars

\* the constructor and the operations of the values it hands out; nothing
\* has been constructed yet
InitOwn ==
    /\ InitCommon
    /\ owners = 0
    /\ errs = {}
    /\ regs = RegsLeft
    /\ tx = 0
    /\ snap = regs
    /\ pre = regs
    /\ pc = "idle"
    /\ cpu = CpuOff

NextOwn ==
    \/ CallUart1
    \/ (owners > 0 /\ \E b \in SampleBytes : CallWriteByte(b))
    \/ (owners > 0 /\ CallReadByte)
    \/ write_byte
    \/ read_byte
    \/ Hw

SpecOwn == InitOwn /\ [][NextOwn]_vars

\* the declared fields of each register under modify(SET) and modify(CLEAR)
InitFields ==
    /\ rx = <<>> /\ tx = 0 /\ errs = {}
    /\ regs = RegsAtReset /\ snap = regs /\ pre = regs
    /\ pc = "idle" /\ stack = <<>> /\ op = "none"
    /\ buf = <<>> /\ idx = 0 /\ byte = 0 /\ ret = Unit
    /\ trace = <<>> /\ out = <<>> /\ spins = 0
    /\ initDone = FALSE /\ runs = 0
    /\ cpu = CpuOff /\ owners = 0 /\ str = <<>> /\ got = -1
    /\ probe \in {ProbeOf(r) : r \in BitfieldNames}

NextFields == \E b \in Bitfields : FieldSet(b) \/ FieldClear(b)

SpecFields == InitFields /\ [][NextFields]_vars

\* init() alone, from every sampled content of the registers
InitAny ==
    /\ InitCommon
    /\ owners = 1
    /\ errs = {}
    /\ regs \in RegsAny
    /\ tx \in 0..TxDepth
    /\ snap = regs
    /\ pre = regs
    /\ pc = "idle"
    /\ cpu = CpuOff

NextInit == CallInit \/ init \/ Hw

SpecInit == InitAny /\ [][NextInit]_vars

\* write_byte alone, for every value of its argument
AllBytes == 0..255

NextByte == (\E b \in AllBytes : CallWriteByte(b)) \/ write_byte \/ HwTransmit

SpecByte == Init /\ [][NextByte]_vars

\* the machine from reset: every core enters _start, the device is as reset
\* or as the firmware left it
InitBoot ==
    /\ InitCommon
    /\ owners = 0
    /\ errs = {}
    /\ regs \in {RegsAtReset, RegsLeft}
    /\ tx = 0
    /\ snap = regs
    /\ pre = regs
    /\ pc = "off"
    /\ cpu = CpuReset

NextBoot ==
    \/ start
    \/ kernel_main
    \/ write_byte
    \/ write_bytes
    \/ read_byte
    \/ write_str
    \/ Hw

SpecBoot == InitBoot /\ [][NextBoot]_vars

\* kernel_main alone: core 0 is about to execute bl kernel_main, the other
\* cores sit in their wfi loop
CpuAtBl ==
    [c \in Cores |-> IF c = 0 THEN [at |-> "bl", fpen |-> TRUE, sp |-> TRUE]
                             ELSE [at |-> "wfi", fpen |-> FALSE, sp |-> FALSE]]

InitMain ==
    /\ InitCommon
    /\ owners = 0
    /\ errs = {}
    /\ regs = RegsLeft
    /\ tx = 0
    /\ snap = regs
    /\ pre = regs
    /\ pc = "off"
    /\ cpu = CpuAtBl

NextMain ==
    \/ start_bl(0)
    \/ kernel_main
    \/ write_byte
    \/ write_bytes
    \/ read_byte
    \/ write_str
    \/ Hw

SpecMain == InitMain /\ [][NextMain]_vars

\* the same machine on a line that delivers only the delete character
NextCores ==
    \/ start
    \/ kernel_main
    \/ write_byte
    \/ write_bytes
    \/ read_byte
    \/ write_str
    \/ HwTransmit
    \/ HwReceive(BitsOf(127))

SpecCores == InitBoot /\ [][NextCores]_vars

\* ------------------------------------------------------------------------
\* Properties
\* ------------------------------------------------------------------------
IsRead(e, r) == e.acc = "read" /\ e.reg = r
IsWrite(e, r) == e.acc = "write" /\ e.reg = r

\* C1: within a write_byte call, a write to the data register comes only
\* directly after a line-status read that showed THREmpty (bit 5) set, and
\* every access before that read is a line-status read that showed it clear;
\* so while the reads show the flag clear there is no write.
C1_WriteOnlyAfterTHREmpty ==
    \A i \in 1..Len(trace) :
        IsWrite(trace[i], "rbr_thr") =>
            /\ i > 1
            /\ IsRead(trace[i - 1], "lsr") /\ 5 \in trace[i - 1].val
            /\ \A j \in 1..(i - 2) : IsRead(trace[j], "lsr") /\ 5 \notin trace[j].val

\* a write_byte that waited through a clear flag and then wrote
C1_Witness ==
    /\ op = "write_byte" /\ pc = "idle"
    /\ Len(trace) >= 3
    /\ 5 \notin trace[1].val
    /\ IsWrite(trace[Len(trace)], "rbr_thr")

\* C2: within a read_byte call the data register is read only directly after
\* a line-status read that showed DataAvailable (bit 0) set; the read takes
\* the byte at the head of the receive path and read_byte returns it; the
\* byte is gone from the receive path afterwards, and when it was the only
\* one waiting the DataAvailable flag is clear after the read.
C2_ReadOnlyAfterDataAvailable ==
    \A i \in 1..Len(trace) :
        IsRead(trace[i], "rbr_thr") =>
            /\ i > 1
            /\ IsRead(trace[i - 1], "lsr") /\ 0 \in trace[i - 1].val
            /\ \A j \in 1..(i - 2) : IsRead(trace[j], "lsr") /\ 0 \notin trace[j].val

C2_ReturnsOnce ==
    (pc = "rb_read" /\ pc' # "rb_read") =>
        /\ rx # <<>>
        /\ ret' = U8(U32AsU8(Head(rx)))
        /\ rx' = Tail(rx)
        /\ (Len(rx) = 1 => 0 \notin LsrValue')

C2_ReadByte == [](C2_ReadOnlyAfterDataAvailable) /\ [][C2_ReturnsOnce]_vars

\* a read_byte that waited, then returned the byte 193 and left the flag clear
C2_Witness ==
    /\ op = "read_byte" /\ pc = "idle"
    /\ Len(trace) >= 3
    /\ ret = U8(193)
    /\ 0 \notin LsrValue

\* C3 (as claimed): whenever the entry function's calls have accessed the
\* line-status or the data register, init() has already run to completion.
C3_InitBeforeFirstAccess ==
    (\E i \in 1..Len(trace) : trace[i].reg \in {"lsr", "rbr_thr"}) => initDone

\* C4 (as claimed): every value init() writes to the FIFO-control view has
\* ClearReceiveFIFO (bit 1) and ClearTransmitFIFO (bit 2) set.
C4_FifoClearBitsPulsed ==
    \A i \in 1..Len(trace) :
        IsWrite(trace[i], "iir_fcr") => {1, 2} \subseteq trace[i].val

\* C5: once init() has returned, the enables word is its pre-init value with
\* bit 0 (UART) added and nothing else changed, and the irq word is
\* the pre-init one; no access of init() is to the irq word.
C5_MuxReadModifyWrite ==
    op = "init" =>
        /\ \A i \in 1..Len(trace) : trace[i].reg # "irq"
        /\ regs.irq = pre.irq
        /\ regs.enables \in {pre.enables, pre.enables \cup {0}}
        /\ (pc = "idle" => regs.enables = pre.enables \cup {0})

\* init() has returned, from an enables word with UART clear and both SPI
\* bits set, and an irq word that is not zero
C5_Witness ==
    /\ op = "init" /\ pc = "idle" /\ Len(trace) > 0
    /\ pre.enables = {1, 2}
    /\ regs.enables = {0, 1, 2}
    /\ pre.irq = {0}

\* C6: when init() returns and the previous toucher of the device was an
\* init() that also returned, the registers are as that init() left them.
C6_InitReturns == pc = InitOrder[Len(InitOrder)] /\ pc' = "idle"

C6_InitIdempotent == [][(C6_InitReturns /\ runs >= 1) => regs' = snap]_vars

\* init() has returned twice in a row, from registers it had to change
C6_Witness ==
    /\ runs = 2 /\ pc = "idle" /\ op = "init"
    /\ regs = snap
    /\ regs.control = {0, 1, 3}

\* C7: the accesses of init() are, in this order, read+write enables,
\* read+write control (ReceiverEnable set), read+write lcr (word length 3),
\* read+write mcr (RequestToSend clear), write ier (zero), write iir_fcr,
\* write baud, read+write control (both enables set); init() returns after
\* all of them; the write to control that precedes the baud write leaves
\* TransmitterEnable (bit 1) as it read it.
InitPattern ==
    <<<<"read", "enables">>, <<"write", "enables">>,
      <<"read", "control">>, <<"write", "control">>,
      <<"read", "lcr">>, <<"write", "lcr">>,
      <<"read", "mcr">>, <<"write", "mcr">>,
      <<"write", "ier">>,
      <<"write", "iir_fcr">>,
      <<"write", "baud">>,
      <<"read", "control">>, <<"write", "control">>>>

C7_InitOrder ==
    op = "init" =>
        /\ Len(trace) <= Len(InitPattern)
        /\ \A i \in 1..Len(trace) : <<trace[i].acc, trace[i].reg>> = InitPattern[i]
        /\ (pc = "idle" => Len(trace) = Len(InitPattern))
        /\ (Len(trace) >= 2 => 0 \in trace[2].val)
        /\ (Len(trace) >= 4 =>
              /\ 0 \in trace[4].val
              /\ (1 \in trace[4].val <=> 1 \in trace[3].val))
        /\ (Len(trace) >= 6 => {0, 1} \subseteq trace[6].val)
        /\ (Len(trace) >= 8 => 1 \notin trace[8].val)
        /\ (Len(trace) >= 9 => trace[9].val = {})
        /\ (Len(trace) >= 13 => {0, 1} \subseteq trace[13].val)

\* init() has returned, having found the transmitter disabled
C7_Witness ==
    /\ op = "init" /\ pc = "idle"
    /\ Len(trace) = Len(InitPattern)
    /\ 1 \notin trace[3].val
    /\ 1 \in trace[13].val

\* C8: write_byte(b) writes the data register at most once, exactly once by
\* the time it returns, and the word written holds b in bits 0..7 and
\* zeros in bits 8..31.
C8_WritesExactlyTheByte ==
    op = "write_byte" =>
        /\ \A i \in 1..Len(trace) :
             IsWrite(trace[i], "rbr_thr") =>
                 /\ i = Len(trace)
                 /\ trace[i].val \cap (8..31) = {}
                 /\ ValOf(trace[i].val) = byte
        /\ (pc = "idle" => Len(trace) >= 1 /\ IsWrite(trace[Len(trace)], "rbr_thr"))
        /\ Len(out) = Cardinality({i \in 1..Len(trace) : IsWrite(trace[i], "rbr_thr")})

\* write_byte(255) has returned
C8_Witness ==
    /\ op = "write_byte" /\ pc = "idle"
    /\ byte = 255
    /\ out = <<0..7>>

\* C9: during write_bytes(s) the words written to the data register are the
\* elements of s from the first on, in index order, and all of them once it
\* has returned; the accesses of the write_byte in progress are line-status
\* reads and at most a final data-register write; no other register
\* changes; for the empty slice there is no access at all.
C9_WriteBytesIsWriteByteInOrder ==
    op = "write_bytes" =>
        /\ Len(out) <= Len(buf)
        /\ \A k \in 1..Len(out) : out[k] \subseteq 0..7 /\ ValOf(out[k]) = buf[k]
        /\ (pc = "idle" => Len(out) = Len(buf))
        /\ \A i \in 1..Len(trace) :
             \/ IsRead(trace[i], "lsr")
             \/ (i = Len(trace) /\ trace[i] = Wr("rbr_thr", out[Len(out)]))
        /\ (buf = <<>> => trace = <<>>)
        /\ regs = pre

\* write_bytes of three distinct bytes has returned
C9_Witness ==
    /\ op = "write_bytes" /\ pc = "idle"
    /\ buf = <<127, 10, 13>>
    /\ Len(out) = 3

\* C10: the word init() writes to the baud register is 27, which is
\* floor(floor(25000000 / 8) / 115200), and lies within bits 0..15.
C10_BaudDivisor ==
    \A i \in 1..Len(trace) :
        IsWrite(trace[i], "baud") =>
            /\ trace[i].val \subseteq 0..15
            /\ ValOf(trace[i].val) = 27
            /\ 27 * 115200 <= 25000000 \div 8
            /\ 25000000 \div 8 < 28 * 115200

\* init() has returned and replaced another divisor by 27
C10_Witness ==
    /\ op = "init" /\ pc = "idle"
    /\ pre.baud = BitsOf(270)
    /\ ValOf(regs.baud) = 27

\* C11: from the first return of init() on, the interrupt-enable register is
\* zero, whatever operations follow; every write a driver operation makes to
\* it writes zero.
C11_InterruptsStayDisabled ==
    /\ initDone => regs.ier = {}
    /\ \A i \in 1..Len(trace) : IsWrite(trace[i], "ier") => trace[i].val = {}

\* after init() found interrupts enabled, a later write_bytes has returned
C11_Witness ==
    /\ initDone
    /\ snap.ier = {}
    /\ op = "write_bytes" /\ pc = "idle" /\ Len(out) = 2
    /\ regs.ier = {}

\* C12: once init() has returned, control is its pre-init value with
\* ReceiverEnable (bit 0) and TransmitterEnable (bit 1) added, both present
\* in the one write of the last statement, which adds them to what it read;
\* lcr is its pre-init value with DataWordLength (bits 0..1) = 3; mcr is its
\* pre-init value with RequestToSend (bit 1) removed.
C12_EnablesWordLengthRts ==
    (op = "init" /\ pc = "idle") =>
        /\ regs.control = pre.control \cup {0, 1}
        /\ regs.lcr = pre.lcr \cup {0, 1}
        /\ regs.mcr = pre.mcr \ {1}
        /\ Len(trace) >= 2
        /\ IsRead(trace[Len(trace) - 1], "control")
        /\ IsWrite(trace[Len(trace)], "control")
        /\ trace[Len(trace)].val = trace[Len(trace) - 1].val \cup {0, 1}

\* init() has returned, from control, lcr and mcr words with foreign bits
\* set, a word length other than 3 and RequestToSend set
C12_Witness ==
    /\ op = "init" /\ pc = "idle"
    /\ pre.control = {1, 3} /\ regs.control = {0, 1, 3}
    /\ pre.lcr = {1, 2, 7} /\ regs.lcr = {0, 1, 2, 7}
    /\ pre.mcr = {0, 1, 5} /\ regs.mcr = {0, 5}

\* C13: a write_byte whose wait finds THREmpty set returns, and so does a
\* read_byte whose wait finds DataAvailable set; init() always returns; a
\* step taken while the awaited flag is clear leaves the call in its wait,
\* and a call in its wait has made no access to the data register.
C13_WriteReturns ==
    (pc = "wb_poll" /\ 5 \in LsrValue) ~> (pc \notin {"wb_poll", "wb_set"})

C13_ReadReturns ==
    (pc = "rb_poll" /\ 0 \in LsrValue) ~> (pc \notin {"rb_poll", "rb_read"} /\ ret.tag = "u8")

C13_InitReturns ==
    (op = "init" /\ pc \notin {"idle"}) ~> (op = "init" /\ pc = "idle")

C13_StaysInWait ==
    /\ (pc = "wb_poll" /\ 5 \notin LsrValue) => (pc' = "wb_poll" /\ out' = out /\ tx' <= tx)
    /\ (pc = "rb_poll" /\ 0 \notin LsrValue) => (pc' = "rb_poll" /\ ret' = ret)

C13_NoAccessInWait ==
    pc \in {"wb_poll", "rb_poll"} =>
        \A i \in 1..Len(trace) : IsRead(trace[i], "lsr")

C13_BlockingCalls ==
    /\ C13_WriteReturns
    /\ C13_ReadReturns
    /\ C13_InitReturns
    /\ [][C13_StaysInWait]_vars
    /\ [](C13_NoAccessInWait)

\* a write_byte that polled as often as the model follows a wait, found the
\* flag set at last and returned
C13_Witness ==
    /\ op = "write_byte" /\ pc = "idle"
    /\ Len(trace) = MaxSpin + 2
    /\ Len(out) = 1

\* C14: the framing, parity, overrun, break and erroneous-data bits of a
\* line-status value never change what read_byte or write_byte does with it:
\* the wait is left exactly when the DataAvailable (resp. THREmpty) bit of the
\* value read is set, whatever the error bits; the byte returned is the low
\* byte of the data word read; no operation writes the line-status register
\* and none returns an error.
C14_SameDecision(v) ==
    \A e \in SUBSET ErrorBits :
        /\ ReadReady((v \ ErrorBits) \cup e) = ReadReady(v)
        /\ WriteReady((v \ ErrorBits) \cup e) = WriteReady(v)

C14_ErrorFlagsDisregarded ==
    /\ \A i \in 1..Len(trace) :
        /\ ~IsWrite(trace[i], "lsr")
        /\ IsRead(trace[i], "lsr") => C14_SameDecision(trace[i].val)
    /\ \A i \in 1..(Len(trace) - 1) :
        /\ (op = "read_byte" /\ IsRead(trace[i], "lsr")) =>
              IF 0 \in trace[i].val THEN IsRead(trace[i + 1], "rbr_thr")
                                    ELSE IsRead(trace[i + 1], "lsr")
        /\ (op = "write_byte" /\ IsRead(trace[i], "lsr")) =>
              IF 5 \in trace[i].val THEN IsWrite(trace[i + 1], "rbr_thr")
                                    ELSE IsRead(trace[i + 1], "lsr")
    /\ (op = "read_byte" /\ pc = "idle") =>
          ret = U8(RbrResult(trace[Len(trace)].val))
    /\ (op = "write_byte" /\ pc = "idle") => ret = Unit
    /\ ret.tag \in {"unit", "u8", "Ok"}

\* read_byte returned a byte although the line-status value that ended its wait
\* showed every error bit
C14_Witness ==
    /\ op = "read_byte" /\ pc = "idle"
    /\ Len(trace) >= 3
    /\ ErrorBits \subseteq trace[Len(trace) - 1].val
    /\ ret = U8(193)

\* C15: with every core started at _start, only the core whose mpidr_el1 has
\* its low two bits zero leaves the identification: it alone enables SIMD,
\* sets the stack pointer and enters kernel_main, once, with both done and
\* with no entry function running yet; a core with a non-zero id goes to the
\* wfi loop and stays there, and whatever runs of kernel_main or of the
\* driver runs on core 0.
C15_Parked(c) == cpu[c].at \in {"_start", "wfi"}

C15_OneContext ==
    /\ \A c \in Cores :
        /\ (Mpidr(c) \cap {0, 1} # {}) => C15_Parked(c)
        /\ cpu[c].at = "kernel_main" =>
              (Mpidr(c) \cap {0, 1} = {} /\ cpu[c].fpen /\ cpu[c].sp)
    /\ pc # "off" =>
          /\ Cardinality({c \in Cores : cpu[c].at = "kernel_main"}) = 1
          /\ \A c \in Cores : cpu[c].at # "kernel_main" => C15_Parked(c)

C15_EntersOnce ==
    \A c \in Cores :
        /\ (cpu'[c].at = "kernel_main" /\ cpu[c].at # "kernel_main") =>
              (cpu[c].at = "bl" /\ pc = "off" /\ pc' = "km_uart1"
               /\ cpu[c].fpen /\ cpu[c].sp)
        /\ cpu[c].at \in {"wfi", "kernel_main"} => cpu'[c].at = cpu[c].at

C15_OnlyCoreZero == [](C15_OneContext) /\ [][C15_EntersOnce]_vars

\* core 0 runs the echo loop of kernel_main while the three other cores sit
\* in their wfi loop
C15_Witness ==
    /\ cpu[0].at = "kernel_main"
    /\ \A c \in Cores \ {0} : cpu[c].at = "wfi"
    /\ pc = "km_match"

\* C16: however often uart1() is called, at most one UART value over the
\* register block exists.
C16_SingleOwner == owners <= 1

\* C17: during write_str(s) the words written to the data register are the
\* bytes of the UTF-8 encoding of s from the first on, in order, and all of
\* them once it has returned; the slice handed to write_bytes is s.as_bytes()
\* and the accesses are those of the write_byte calls of write_bytes: polls
\* of the line status and one data-register write per byte; no other
\* register changes; the value returned is Ok.
C17_WriteStrIsWriteBytes ==
    op = "write_str" =>
        /\ pc # "ws_call" => buf = AsBytes(str)
        /\ Len(out) <= Len(AsBytes(str))
        /\ \A k \in 1..Len(out) : out[k] = BitsOf(AsBytes(str)[k])
        /\ (pc \in {"idle", "km_read", "km_erase"}) =>
              (Len(out) = Len(AsBytes(str)) /\ ret = Ok)
        /\ \A i \in 1..Len(trace) :
             \/ IsRead(trace[i], "lsr")
             \/ (i = Len(trace) /\ trace[i] = Wr("rbr_thr", out[Len(out)]))
        /\ (str = <<>> => trace = <<>>)
        /\ ret.tag \in {"unit", "Ok"}
        /\ regs = pre

\* write_str of a string with a three-byte char and a line feed has returned
C17_Witness ==
    /\ op = "write_str" /\ pc = "idle"
    /\ str = <<8364, 10>>
    /\ out = <<BitsOf(226), BitsOf(130), BitsOf(172), BitsOf(10)>>
    /\ ret = Ok

\* C18: write_byte never reads the data register and, once it has returned,
\* has written it exactly once, as its last access; read_byte, once it has
\* returned, has read the data register exactly once, as its last access,
\* returns bits 0..7 of the word read (a value below 256) and has written no
\* register: every access is a read, nothing went to the data register and
\* the registers are as before the call.
C18_DataAccesses(acc) ==
    {i \in 1..Len(trace) : trace[i].reg = "rbr_thr" /\ trace[i].acc = acc}

C18_AliasedDirection ==
    /\ op = "write_byte" =>
          /\ C18_DataAccesses("read") = {}
          /\ C18_DataAccesses("write") \subseteq {Len(trace)}
          /\ (pc = "idle" => C18_DataAccesses("write") = {Len(trace)})
          /\ (pc = "idle" => Len(out) = 1)
    /\ op = "read_byte" =>
          /\ \A i \in 1..Len(trace) : trace[i].acc = "read"
          /\ C18_DataAccesses("read") \subseteq {Len(trace)}
          /\ out = <<>>
          /\ regs = pre
          /\ pc = "idle" =>
                /\ C18_DataAccesses("read") = {Len(trace)}
                /\ ret.tag = "u8"
                /\ ret.val \in 0..255
                /\ BitsOf(ret.val) = trace[Len(trace)].val \cap (0..7)

\* read_byte returned 193 for a data word that has bits 0, 6, 7 and 31 set
C18_Witness ==
    /\ op = "read_byte" /\ pc = "idle"
    /\ trace[Len(trace)] = Rd("rbr_thr", {0, 6, 7, 31})
    /\ ret = U8(193)

\* C19: kernel_main never returns. Its first output is "Hello world\n",
\* complete before the first read_byte. Every read_byte starts at the head of
\* the loop with the output for the byte before complete, and the output
\* between two reads is the response to the byte read: a line feed for a
\* carriage return, ESC [ 1 D and then ESC [ K for 0x7F, the byte itself
\* otherwise. At any moment the bytes written by the call in progress are a
\* prefix of the greeting, or of the response to the byte read last.
C19_Words(s) == [k \in 1..Len(s) |-> BitsOf(s[k])]

C19_IsPrefix(a, b) == Len(a) <= Len(b) /\ \A k \in 1..Len(a) : a[k] = b[k]

\* what the call in progress has to write, and where kernel_main continues
\* when that is written
C19_Due ==
    IF op \in {"none", "read_byte"} THEN [bytes |-> <<>>, at |-> "km_match"]
    ELSE IF got = -1 THEN [bytes |-> Hello, at |-> "km_read"]
    ELSE IF got = 13 THEN [bytes |-> <<10>>, at |-> "km_read"]
    ELSE IF got = 127 /\ str = <<27, 91, 49, 68>>
      THEN [bytes |-> <<27, 91, 49, 68>>, at |-> "km_erase"]
    ELSE IF got = 127 THEN [bytes |-> <<27, 91, 75>>, at |-> "km_read"]
    ELSE [bytes |-> <<got>>, at |-> "km_read"]

C19_Echo ==
    pc \notin {"off", "km_uart1", "km_hello"} =>
        /\ pc # "halt"
        /\ stack # <<>> /\ stack[Len(stack)] = "halt"
        /\ C19_IsPrefix(out, C19_Words(C19_Due.bytes))
        /\ pc \in {"km_read", "km_erase", "km_match"} =>
              (pc = C19_Due.at /\ out = C19_Words(C19_Due.bytes))
        /\ Len(stack) >= 2 => stack[Len(stack) - 1] = C19_Due.at
        /\ got = 13 => op \in {"write_byte", "read_byte"}
        /\ got = 127 => op \in {"write_str", "read_byte"}
        /\ pc = "km_match" => (op = "read_byte" /\ ret.tag = "u8")

C19_Order ==
    /\ got' # got => (pc = "km_match" /\ got' = ret.val)
    /\ (pc' = "rb_poll" /\ pc # "rb_poll") => pc = "km_read"
    /\ (str' # str /\ str' = <<27, 91, 75>>) =>
          (pc = "km_erase" /\ got = 127 /\ out = C19_Words(<<27, 91, 49, 68>>))
    /\ (str' # str /\ str' = <<27, 91, 49, 68>>) => pc = "km_match"
    /\ (pc = "km_hello") => (got = -1 /\ out = <<>>)

C19_EchoLoop == [](C19_Echo) /\ [][C19_Order]_vars

\* the loop is back at its head with both escape sequences written for a
\* delete, and a carriage return is waiting to be read next
C19_Witness ==
    /\ pc = "km_read"
    /\ got = 127
    /\ str = EraseLine
    /\ out = C19_Words(EraseLine)
    /\ rx = <<BitsOf(13)>>

\* C20: the named fields of a register lie within the register's width and
\* no bit belongs to two of them: for the register modified, any two fields
\* of different name have no bit in common, so setting or clearing one field
\* leaves what every other field reads unchanged.
C20_FieldsDisjoint ==
    probe.name # "none" =>
        \A b \in FieldsOf(probe.reg) :
            /\ FieldMask(b.field) \subseteq 0..(b.width - 1)
            /\ \A g \in FieldsOf(probe.reg) :
                 g.name # b.name => FieldMask(b.field) \cap FieldMask(g.field) = {}
            /\ b.name # probe.name =>
                 ReadField(probe.after, b.field) = ReadField(probe.before, b.field)

====
